---- MODULE Spec2Model ----
(***************************************************************************)
(* The game server of boss-fight-pump-fun (src/server.js) as a state       *)
(* machine.  The server is one Node.js process: every handler runs to its  *)
(* next `await` without interruption, and an awaited ledger RPC is a       *)
(* suspended activation (a "task") that any other handler may overtake.    *)
(* Handlers are written as functions from a state record to a state record *)
(* so that the statements of a handler compose in source order; Assign     *)
(* stores the record back into the variables.                              *)
(***************************************************************************)
EXTENDS Bags, FiniteSets, Integers, Sequences, TLC

(* ---------------------------------------------------------------------- *)
(* Bounds of the model                                                     *)
(* ---------------------------------------------------------------------- *)
MaxRounds == 1
MaxResets == 1
MaxChat == 3
(* the same, for the specification of racing rounds *)
RaceRounds == 2
RaceResets == 1
RaceChat == 1
(* the chat clients made and the reconnect timers pending at a time, for   *)
(* the specification of the chat ingestor                                  *)
MaxClients == 4
MaxNotifiedLamports == 2000000000
MaxPending == 4
(* process.env.INITIAL_HP (30 when unset): a boss small enough to be beaten *)
(* and healed back within MaxChat messages                                  *)
INITIAL_HP == 2
(* Significant bits of a Number.  JavaScript carries 53; the amounts of the *)
(* settlement scenarios are scaled to this width as lamport amounts are to  *)
(* 53 bits: every amount and total is below 2^SignificandBits, as           *)
(* BN.toNumber() requires, while a product of two of them need not be.      *)
SignificandBits == 8

(* ---------------------------------------------------------------------- *)
(* Configuration and program constants                                     *)
(* ---------------------------------------------------------------------- *)
BETTING_DURATION == 60
FIGHT_DURATION == 60
LAMPORTS_PER_SOL == 1000000000
FEE_PERCENTAGE == 5
MaxStartFightRetries == 5
RetryDelayMs == 2000

IDLE == "idle"
BETTING == "betting"
FIGHTING == "fighting"
ENDED == "ended"
GAME_PHASES == {IDLE, BETTING, FIGHTING, ENDED}

(* The values a wallet field or process.env.ADMIN_WALLET can hold: a       *)
(* string, undefined (or null), or an object whose string form is text,    *)
(* such as the array [text].                                               *)
JsString(text) == [ type |-> "string", text |-> text ]
JsObject(text) == [ type |-> "object", text |-> text ]
Undefined == [ type |-> "undefined", text |-> "" ]

(* !v is false *)
truthy(v) == v.type = "object" \/ (v.type = "string" /\ v.text # "")

(* a === b, where b is a string or undefined *)
strictEquals(a, b) == a.type = b.type /\ a.type # "object" /\ a.text = b.text

(* a == b, where b is a string or undefined: null and undefined equal each *)
(* other only, an object is compared by its string form                    *)
looseEquals(a, b) ==
  IF a.type = "undefined" \/ b.type = "undefined"
  THEN a.type = b.type
  ELSE a.text = b.text

COIN_ADDRESS == "coin"
maxReconnectAttempts == 10
reconnectInterval == 5000

ADMIN_SECRET == <<"aaa">>
(* the value of process.env.ADMIN_WALLET in a deployment that sets it *)
ADMIN_WALLET == JsString("adminWallet")

(* An optional value (null, undefined or a value) is <<>> or <<v>>. *)
Null == <<>>
Some(v) == <<v>>

Max(a, b) == IF a >= b THEN a ELSE b
Min(a, b) == IF a <= b THEN a ELSE b

(* ---------------------------------------------------------------------- *)
(* Strings: a message is a sequence of characters                          *)
(* ---------------------------------------------------------------------- *)
toUpperCaseChar(c) ==
  CASE c = "h" -> "H"
    [] c = "i" -> "I"
    [] c = "t" -> "T"
    [] c = "e" -> "E"
    [] c = "a" -> "A"
    [] c = "l" -> "L"
    [] OTHER -> c

toUpperCase(str) == [i \in 1..Len(str) |-> toUpperCaseChar(str[i])]

(* String.prototype.includes *)
includes(text, k) ==
  \E i \in 0..(Len(text) - Len(k)) :
    \A j \in 1..Len(k) : text[i + j] = k[j]

TRIGGER_KEYWORDS == << <<"H", "I", "T">>, <<"#swords">> >>
HEAL_KEYWORDS == << <<"H", "E", "A", "L">>, <<"#heart">> >>

(* Inputs of the model *)
MsgHit == <<"h", "i", "t">>
MsgHeal == <<"H", "E", "A", "L">>
MsgBoth == <<"H", "I", "T", " ", "h", "e", "a", "l">>
MsgNone == <<"g", "g">>
PumpMessages ==
  { [ username |-> "alice", message |-> MsgHit, timestamp |-> 1 ],
    [ username |-> "bob", message |-> MsgHit, timestamp |-> 1 ],
    [ username |-> "bob", message |-> MsgHeal, timestamp |-> 1 ],
    [ username |-> "alice", message |-> MsgBoth, timestamp |-> 1 ],
    [ username |-> "bob", message |-> MsgNone, timestamp |-> 1 ] }
(* the same, for the specification of the chat of one fight: keywords in   *)
(* either case, repeated, combined, inside a word, cut short, absent       *)
KeywordMessages ==
  { MsgHit, MsgHeal, MsgBoth, MsgNone,
    <<"H", "i", "T">>,
    <<"h", "i", "t", "H", "I", "T">>,
    <<"H", "I", "T", "#swords">>,
    <<"#swords">>,
    <<"h", "e", "a", "l", " ", "#heart">>,
    <<"#heart", "#swords">>,
    <<"w", "h", "i", "t", "e">>,
    <<"h", "i">>,
    <<>> }
FightMessages ==
  { [ username |-> u, message |-> m, timestamp |-> 1 ] :
      u \in {"alice", "bob"}, m \in KeywordMessages }
(* the same, with timestamps as the chat service gives them: in any order *)
StampedMessages ==
  { [ username |-> "alice", message |-> m, timestamp |-> t ] :
      m \in { MsgHit, MsgHeal }, t \in 1..3 }
TestQueries ==
  { [ user |-> Null, msg |-> Null ],
    [ user |-> Null, msg |-> Some(<<>>) ],
    [ user |-> Some("alice"), msg |-> Some(MsgNone) ] }
Elapsed == {0, 1}


(* On-chain bet accounts of a round, as the ledger returns them.  The       *)
(* ledger program is not part of the repository: its answers are inputs.    *)
Bet(w, u, a, p) == [bettor |-> w, username |-> u, amount |-> a, prediction |-> p]
BetScenarios ==
  { <<>>,
    << Bet("w1", "alice", 2, "death"), Bet("w2", "bob", 1, "survival") >> }
(* the same, for the specification of racing rounds *)
RaceScenarios == { <<>>, << Bet("w1", "alice", 2, "death") >> }
(* the same, for the specification of the settlement: amounts that do not   *)
(* divide evenly, several winners, no winner, no loser, and amounts whose   *)
(* products need more than SignificandBits bits                             *)
PayoutScenarios ==
  { <<>>,
    << Bet("w1", "alice", 30, "death"), Bet("w2", "bob", 20, "death"),
       Bet("w3", "carol", 7, "survival") >>,
    << Bet("w1", "alice", 1, "death"), Bet("w2", "bob", 1, "death"),
       Bet("w3", "carol", 1, "death"), Bet("w4", "dave", 50, "survival") >>,
    << Bet("w1", "alice", 3, "survival"), Bet("w2", "bob", 4, "survival") >>,
    << Bet("w1", "alice", 33, "death"), Bet("w2", "bob", 67, "survival"),
       Bet("w3", "carol", 100, "survival") >>,
    << Bet("w1", "alice", 10, "survival"), Bet("w2", "bob", 15, "survival"),
       Bet("w3", "carol", 9, "death") >>,
    << Bet("w1", "alice", 87, "death"), Bet("w2", "bob", 3, "survival") >>,
    << Bet("w1", "alice", 50, "death"), Bet("w2", "bob", 180, "survival") >> }
AllScenarios == BetScenarios \cup RaceScenarios \cup PayoutScenarios

RECURSIVE SumAmounts(_, _)
SumAmounts(bets, p) ==
  IF bets = <<>> THEN 0
  ELSE (IF bets[1].prediction = p THEN bets[1].amount ELSE 0)
       + SumAmounts(Tail(bets), p)

(* program.account.bettingRound.fetch: the round account of a scenario *)
RoundAccount(bets, defeated) ==
  [ bossDefeated |-> defeated,
    totalDeathBets |-> SumAmounts(bets, "death"),
    totalSurvivalBets |-> SumAmounts(bets, "survival"),
    feePercentage |-> FEE_PERCENTAGE ]
NoAccount == RoundAccount(<<>>, FALSE)

(* connection.getProgramAccounts filtered by round: the bets behind an account *)
BetAccountsOf(acct) ==
  CHOOSE bets \in AllScenarios :
    /\ SumAmounts(bets, "death") = acct.totalDeathBets
    /\ SumAmounts(bets, "survival") = acct.totalSurvivalBets

(* ---------------------------------------------------------------------- *)
(* State                                                                   *)
(* ---------------------------------------------------------------------- *)
VARIABLES
  gamePhase,          \* GAME_PHASES
  currentRoundId,     \* 0 when no round
  bossHP,
  userHits,           \* Map username -> hits, in insertion order
  chronological,      \* array of {username, message, timestamp, delta}
  lastHitter,         \* optional username
  totalHits,
  bettingEndTime,     \* optional ms
  fightEndTime,       \* optional ms
  gameTimer,          \* optional timer handle: null or a handle
  bettingRoundPDA,    \* optional address
  escrowPDA,          \* optional address
  onChainBets,        \* Map walletAddress -> bet info
  totalDeathBets,
  totalSurvivalBets,
  tasks,              \* bag of suspended async activations
  timers,             \* pending setTimeout callbacks, oldest first
  now,                \* the last reading of Date.now()
  timePassed,         \* the clock has advanced since that reading
  broadcasts,         \* what the last handler passed to io.emit
  rpcCalls,           \* the ledger calls the last handler issued
  rounds,             \* startBettingPhase runs so far
  resets,             \* admin resets so far
  adminWallet,        \* process.env.ADMIN_WALLET: a string or undefined
  replies,            \* what the last handler sent to single sockets
  isConnecting,
  isConnected,
  reconnectAttempts,
  clients,            \* the PumpChatClient objects made so far, oldest
                      \* first, by their status; pumpSocket is the last
  overlays            \* the connected overlay sockets, each with the
                      \* phase its messages have told it so far

vars ==
  << gamePhase, currentRoundId, bossHP, userHits, chronological, lastHitter,
     totalHits, bettingEndTime, fightEndTime, gameTimer, bettingRoundPDA,
     escrowPDA, onChainBets, totalDeathBets, totalSurvivalBets, tasks, timers,
     now, timePassed, broadcasts, rpcCalls, rounds, resets, adminWallet,
     replies, isConnecting, isConnected, reconnectAttempts, clients,
     overlays >>

(* The state a handler starts from, as a record, and its write-back.  The    *)
(* outputs (broadcasts, rpcCalls) hold what one handler run produced.       *)
S ==
  [ gamePhase |-> gamePhase, currentRoundId |-> currentRoundId,
    bossHP |-> bossHP, userHits |-> userHits, chronological |-> chronological,
    lastHitter |-> lastHitter, totalHits |-> totalHits,
    bettingEndTime |-> bettingEndTime, fightEndTime |-> fightEndTime,
    gameTimer |-> gameTimer, bettingRoundPDA |-> bettingRoundPDA,
    escrowPDA |-> escrowPDA, onChainBets |-> onChainBets,
    totalDeathBets |-> totalDeathBets, totalSurvivalBets |-> totalSurvivalBets,
    tasks |-> tasks, timers |-> timers, now |-> now, timePassed |-> timePassed,
    broadcasts |-> <<>>, rpcCalls |-> <<>>, rounds |-> rounds, resets |-> resets,
    replies |-> <<>>, isConnecting |-> isConnecting, isConnected |-> isConnected,
    reconnectAttempts |-> reconnectAttempts, clients |-> clients,
    overlays |-> overlays ]

(* The phase an overlay shows after a handler's broadcasts: that of the    *)
(* last phase_change, fight_ended or game_reset among them, if any         *)
PhaseEvents == { "phase_change", "fight_ended", "game_reset" }
shownPhase(shown, events) ==
  LET told == { i \in DOMAIN events : events[i].event \in PhaseEvents }
  IN IF told = {} THEN shown
     ELSE events[CHOOSE i \in told : \A j \in told : j <= i].gamePhase

(* io.emit reaches every connected socket *)
fanOut(sockets, events) ==
  [ socket \in DOMAIN sockets |-> shownPhase(sockets[socket], events) ]

Assign(s) ==
  /\ gamePhase' = s.gamePhase
  /\ currentRoundId' = s.currentRoundId
  /\ bossHP' = s.bossHP
  /\ userHits' = s.userHits
  /\ chronological' = s.chronological
  /\ lastHitter' = s.lastHitter
  /\ totalHits' = s.totalHits
  /\ bettingEndTime' = s.bettingEndTime
  /\ fightEndTime' = s.fightEndTime
  /\ gameTimer' = s.gameTimer
  /\ bettingRoundPDA' = s.bettingRoundPDA
  /\ escrowPDA' = s.escrowPDA
  /\ onChainBets' = s.onChainBets
  /\ totalDeathBets' = s.totalDeathBets
  /\ totalSurvivalBets' = s.totalSurvivalBets
  /\ tasks' = s.tasks
  /\ timers' = s.timers
  /\ now' = s.now
  /\ timePassed' = s.timePassed
  /\ broadcasts' = s.broadcasts
  /\ rpcCalls' = s.rpcCalls
  /\ rounds' = s.rounds
  /\ resets' = s.resets
  /\ adminWallet' = adminWallet
  /\ replies' = s.replies
  /\ isConnecting' = s.isConnecting
  /\ isConnected' = s.isConnected
  /\ reconnectAttempts' = s.reconnectAttempts
  /\ clients' = s.clients
  /\ overlays' = fanOut(s.overlays, s.broadcasts)

InitServer ==
  /\ gamePhase = IDLE
  /\ currentRoundId = 0
  /\ bossHP = INITIAL_HP
  /\ userHits = <<>>
  /\ chronological = <<>>
  /\ lastHitter = Null
  /\ totalHits = 0
  /\ bettingEndTime = Null
  /\ fightEndTime = Null
  /\ gameTimer = Null
  /\ bettingRoundPDA = Null
  /\ escrowPDA = Null
  /\ onChainBets = {}
  /\ totalDeathBets = 0
  /\ totalSurvivalBets = 0
  /\ tasks = EmptyBag
  /\ timers = <<>>
  /\ now = 0
  /\ timePassed = TRUE
  /\ broadcasts = <<>>
  /\ rpcCalls = <<>>
  /\ rounds = 0
  /\ resets = 0
  /\ replies = <<>>
  /\ overlays = <<>>

(* the chat ingestor before the server listens *)
InitIngestor ==
  /\ isConnecting = FALSE
  /\ isConnected = FALSE
  /\ reconnectAttempts = 0
  /\ clients = <<>>

(* the chat ingestor once its first client has connected *)
ChatConnected ==
  /\ isConnecting = FALSE
  /\ isConnected = TRUE
  /\ reconnectAttempts = 0
  /\ clients = << "connected" >>

(* a deployment with ADMIN_WALLET set, listening, its chat connected *)
Init == InitServer /\ adminWallet = ADMIN_WALLET /\ ChatConnected

(* ---------------------------------------------------------------------- *)
(* Primitives: io.emit, setTimeout, clearTimeout, ledger calls, PDAs       *)
(* ---------------------------------------------------------------------- *)
emit(s, ev) == [s EXCEPT !.broadcasts = Append(@, ev)]

(* socket.emit: to the one socket *)
socketEmit(s, socket, ev) ==
  [s EXCEPT !.replies = Append(@, [ to |-> socket, ev |-> ev ])]

(* Date.now(): the clock read dt after its last reading; it cannot read the *)
(* same value again once a timer has run out in between.                    *)
DateNow(s, dt) == IF s.timePassed THEN s.now + 1 ELSE s.now + dt
readClock(s, dt) == [s EXCEPT !.now = DateNow(s, dt), !.timePassed = FALSE]

(* setTimeout: a new pending timer.  A timer handle is opaque: `held` marks *)
(* the pending timer whose handle gameTimer holds.                          *)
setTimeout(s, kind, retryCount, delay) ==
  [s EXCEPT !.timers = Append(@, [ kind |-> kind, retryCount |-> retryCount,
                                   delay |-> delay, held |-> FALSE ])]

(* clearTimeout(gameTimer): a null or expired handle clears nothing *)
clearTimeout(pending, handle) ==
  IF handle = Null THEN pending
  ELSE LET notHeld(t) == ~t.held IN SelectSeq(pending, notHeld)

getBettingRoundPDA(roundId) == <<"betting_round", roundId>>
getEscrowPDA(roundId) == <<"escrow", roundId>>
getBetPDA(roundId, bettor) == <<"bet", roundId, bettor>>

(* A ledger call as it leaves the server *)
rpc(s, op, bettor) ==
  [s EXCEPT !.rpcCalls = Append(@, [ op |-> op,
                                     bettingRound |-> s.bettingRoundPDA,
                                     escrow |-> s.escrowPDA,
                                     bettor |-> bettor ])]

(* A suspended activation: its function, the await it is at, its locals,   *)
(* and for endFight the round on whose account its endFight call was made. *)
Task(fn, pc) ==
  [ fn |-> fn, pc |-> pc, retryCount |-> 0, bossDefeated |-> FALSE,
    sent |-> TRUE, round |-> 0, acct |-> NoAccount, bets |-> <<>>,
    payoutResults |-> <<>> ]

suspend(s, task) == [s EXCEPT !.tasks = @ (+) SetToBag({task})]
resume(s, task) == [s EXCEPT !.tasks = @ (-) SetToBag({task})]


(* ---------------------------------------------------------------------- *)
(* Game logic                                                              *)
(* ---------------------------------------------------------------------- *)
resetGame(s) ==
  LET s1 == [s EXCEPT !.gamePhase = IDLE,
                      !.currentRoundId = 0,
                      !.bossHP = INITIAL_HP,
                      !.userHits = <<>>,
                      !.chronological = <<>>,
                      !.lastHitter = Null,
                      !.totalHits = 0,
                      !.onChainBets = {},
                      !.totalDeathBets = 0,
                      !.totalSurvivalBets = 0,
                      !.bettingEndTime = Null,
                      !.fightEndTime = Null,
                      !.bettingRoundPDA = Null,
                      !.escrowPDA = Null]
      s2 == IF s1.gameTimer # Null
            THEN [s1 EXCEPT !.timers = clearTimeout(@, s1.gameTimer),
                            !.gameTimer = Null]
            ELSE s1
  IN emit(s2, [ event |-> "game_reset", gamePhase |-> s2.gamePhase,
                bossHP |-> s2.bossHP, maxHP |-> INITIAL_HP ])

(* Array.prototype.sort by descending hits; the sort is stable *)
RECURSIVE sortByHits(_)
sortByHits(arr) ==
  IF arr = <<>> THEN <<>>
  ELSE LET rest == sortByHits(SubSeq(arr, 1, Len(arr) - 1))
           x == arr[Len(arr)]
           k == Cardinality({ i \in DOMAIN rest : rest[i].hits >= x.hits })
       IN SubSeq(rest, 1, k) \o <<x>> \o SubSeq(rest, k + 1, Len(rest))

getTop(s, n) ==
  LET arr == sortByHits(s.userHits)
  IN SubSeq(arr, 1, Min(n, Len(arr)))

(* userHits.get(username) || 0 *)
hitsOf(map, username) ==
  IF \E i \in DOMAIN map : map[i].username = username
  THEN (CHOOSE e \in { map[i] : i \in DOMAIN map } : e.username = username).hits
  ELSE 0

(* userHits.set(username, hits): a present key keeps its place *)
setHits(map, username, hits) ==
  IF \E i \in DOMAIN map : map[i].username = username
  THEN [ i \in DOMAIN map |->
           IF map[i].username = username
           THEN [ username |-> username, hits |-> hits ]
           ELSE map[i] ]
  ELSE Append(map, [ username |-> username, hits |-> hits ])

(* A keyword test in which a hit keyword wins over a heal keyword *)
keywordDelta_hitWins(message) ==
  LET text == toUpperCase(message)
      hasHitKeyword ==
        \E i \in DOMAIN TRIGGER_KEYWORDS :
          includes(text, toUpperCase(TRIGGER_KEYWORDS[i]))
      hasHealKeyword ==
        \E i \in DOMAIN HEAL_KEYWORDS :
          includes(text, toUpperCase(HEAL_KEYWORDS[i]))
  IN IF hasHitKeyword THEN -1
     ELSE IF hasHealKeyword THEN 1
     ELSE 0

(* The keyword test of handleChatMessage: -1, +1 or 0 *)
keywordDelta(message) ==
  LET text == toUpperCase(message)
      hasHitKeyword ==
        \E i \in DOMAIN TRIGGER_KEYWORDS :
          includes(text, toUpperCase(TRIGGER_KEYWORDS[i]))
      hasHealKeyword ==
        \E i \in DOMAIN HEAL_KEYWORDS :
          includes(text, toUpperCase(HEAL_KEYWORDS[i]))
  IN IF hasHitKeyword /\ ~hasHealKeyword THEN -1
     ELSE IF hasHealKeyword /\ ~hasHitKeyword THEN 1
     ELSE 0

(* A server that forgets the phase test in front of chat input *)
inFightingPhase_always(s) == TRUE

(* gamePhase === GAME_PHASES.FIGHTING, the test in front of all chat input *)
inFightingPhase(s) == s.gamePhase = FIGHTING

(* bossHP + delta taken as it comes, without the clamp *)
clampHP_unclamped(hp) == hp

(* A clamp that forgets the lower bound *)
clampHP_noFloor(hp) == Min(INITIAL_HP, hp)

(* Math.max(0, Math.min(INITIAL_HP, bossHP + delta)) *)
clampHP(hp) == Max(0, Min(INITIAL_HP, hp))

(* A damage branch that credits the user but forgets the round's total *)
recordHit_noTotal(s, username) ==
  [s EXCEPT !.userHits = setHits(@, username, hitsOf(@, username) + 1),
            !.lastHitter = Some(username)]

(* The damage branch of handleChatMessage *)
recordHit(s, username) ==
  [s EXCEPT !.totalHits = @ + 1,
            !.userHits = setHits(@, username, hitsOf(@, username) + 1),
            !.lastHitter = Some(username)]

(* A handler that credits the sender whatever the sign of delta *)
handleChatMessage_healCredits(s, username, message, timestamp) ==
  IF ~inFightingPhase(s) THEN s
  ELSE
    LET delta == keywordDelta(message)
    IN IF delta = 0 THEN s
       ELSE
         LET s1 == recordHit(s, username)
             s2 == [s1 EXCEPT !.chronological =
                      Append(@, [ username |-> username, message |-> message,
                                  timestamp |-> timestamp, delta |-> delta ])]
             s3 == [s2 EXCEPT !.bossHP = clampHP(@ + delta)]
         IN emit(s3, [ event |-> "update", bossHP |-> s3.bossHP,
                       maxHP |-> INITIAL_HP, top |-> getTop(s3, 3),
                       lastHitter |-> s3.lastHitter,
                       latest |-> s3.chronological[Len(s3.chronological)] ])

(* handleChatMessage(username, message, timestamp) *)
handleChatMessage(s, username, message, timestamp) ==
  IF ~inFightingPhase(s) THEN s
  ELSE
    LET delta == keywordDelta(message)
    IN IF delta = 0 THEN s
       ELSE
         LET s1 == IF delta < 0 THEN recordHit(s, username) ELSE s
             s2 == [s1 EXCEPT !.chronological =
                      Append(@, [ username |-> username, message |-> message,
                                  timestamp |-> timestamp, delta |-> delta ])]
             s3 == [s2 EXCEPT !.bossHP = clampHP(@ + delta)]
         IN emit(s3, [ event |-> "update", bossHP |-> s3.bossHP,
                       maxHP |-> INITIAL_HP, top |-> getTop(s3, 3),
                       lastHitter |-> s3.lastHitter,
                       latest |-> s3.chronological[Len(s3.chronological)] ])

buildResults(s, bossDefeated) ==
  LET top == getTop(s, 1)
  IN [ currentRoundId |-> s.currentRoundId,
       bossDefeated |-> bossDefeated,
       topDamageDealer |-> IF top # <<>> THEN Some(top[1].username) ELSE Null,
       topDamage |-> IF top # <<>> THEN top[1].hits ELSE 0,
       lastHitter |-> s.lastHitter,
       scores |-> s.userHits,
       totalHits |-> s.totalHits,
       totalDeathBets |-> s.totalDeathBets,
       totalSurvivalBets |-> s.totalSurvivalBets,
       bettingRoundPDA |-> s.bettingRoundPDA ]


(* ---------------------------------------------------------------------- *)
(* Phase management.  Each async function is cut at its awaits: the part   *)
(* up to the first await, and one continuation per awaited call.  A ledger *)
(* call made with a null address cannot be sent (task.sent = FALSE) and    *)
(* can only come back as an error.                                         *)
(* ---------------------------------------------------------------------- *)

(* gameTimer = setTimeout(...) *)
setGameTimer(s, kind, delay) ==
  LET released == [ i \in DOMAIN s.timers |-> [s.timers[i] EXCEPT !.held = FALSE] ]
  IN [s EXCEPT !.timers = Append(released, [ kind |-> kind, retryCount |-> 0,
                                             delay |-> delay, held |-> TRUE ]),
               !.gameTimer = Some("timeout")]

(* startBettingPhase up to the await of initializeBettingRound; Date.now()  *)
(* reads the clock dt after its last reading.                               *)
startBettingPhase(s, dt) ==
  IF s.gamePhase # IDLE /\ s.gamePhase # ENDED THEN s
  ELSE
    LET s1 == resetGame(s)
        t == DateNow(s1, dt)
        s2 == [readClock(s1, dt) EXCEPT
                 !.rounds = @ + 1,
                 !.currentRoundId = t,
                 !.bettingRoundPDA = Some(getBettingRoundPDA(t)),
                 !.escrowPDA = Some(getEscrowPDA(t))]
    IN suspend(rpc(s2, "initializeBettingRound", ""),
               Task("startBettingPhase", "initializeBettingRound"))

(* A continuation that opens the betting whatever the call returned *)
startBettingPhaseResume_noCatch(s, task, ok) ==
  LET s0 == resume(s, task)
      s1 == [s0 EXCEPT !.gamePhase = BETTING,
                       !.bettingEndTime =
                         Some(DateNow(s0, 0) + BETTING_DURATION * 1000)]
  IN setGameTimer(
       emit(s1, [ event |-> "phase_change",
                  gamePhase |-> s1.gamePhase,
                  currentRoundId |-> s1.currentRoundId,
                  bettingRoundPDA |-> s1.bettingRoundPDA,
                  escrowPDA |-> s1.escrowPDA ]),
       "betting", BETTING_DURATION * 1000)

(* startBettingPhase after initializeBettingRound returned.  The payload of *)
(* phase_change calls toString on both addresses: on a null address that    *)
(* throws into the catch block, before the emit and before the timer.       *)
startBettingPhaseResume(s, task, ok) ==
  LET s0 == resume(s, task)
  IN IF ~ok THEN [s0 EXCEPT !.gamePhase = IDLE]
     ELSE
       LET s1 == [s0 EXCEPT !.gamePhase = BETTING,
                            !.bettingEndTime =
                              Some(DateNow(s0, 0) + BETTING_DURATION * 1000)]
       IN IF s1.bettingRoundPDA = Null \/ s1.escrowPDA = Null
          THEN [s1 EXCEPT !.gamePhase = IDLE]
          ELSE setGameTimer(
                 emit(s1, [ event |-> "phase_change",
                            gamePhase |-> s1.gamePhase,
                            currentRoundId |-> s1.currentRoundId,
                            bettingRoundPDA |-> s1.bettingRoundPDA,
                            escrowPDA |-> s1.escrowPDA ]),
                 "betting", BETTING_DURATION * 1000)

(* startFightingPhase up to the await of startFightPhase *)
startFightingPhase(s, retryCount) ==
  IF s.gamePhase # BETTING THEN s
  ELSE suspend(rpc(s, "startFightPhase", ""),
               [Task("startFightingPhase", "startFightPhase")
                  EXCEPT !.retryCount = retryCount,
                         !.sent = s.bettingRoundPDA # Null])

(* A catch block that retries after any error *)
startFightingPhaseCatch_anyError(s, task, code) ==
  IF task.retryCount < MaxStartFightRetries
  THEN setTimeout(s, "retry", task.retryCount + 1, RetryDelayMs)
  ELSE [emit(s, [ event |-> "phase_change", gamePhase |-> IDLE ])
          EXCEPT !.gamePhase = IDLE]

(* A catch block that gives up without telling anyone *)
startFightingPhaseCatch_silent(s, task, code) ==
  IF code = "BettingStillActive" /\ task.retryCount < MaxStartFightRetries
  THEN setTimeout(s, "retry", task.retryCount + 1, RetryDelayMs)
  ELSE IF task.retryCount >= MaxStartFightRetries
       THEN [s EXCEPT !.gamePhase = IDLE]
       ELSE s

(* The phase_change of a fight that could not be started *)
startFailed ==
  [ event |-> "phase_change", gamePhase |-> IDLE,
    message |-> "Failed to start fight phase. Please try starting a new betting round." ]

(* The catch block of startFightingPhase *)
startFightingPhaseCatch(s, task, code) ==
  IF code = "BettingStillActive" /\ task.retryCount < MaxStartFightRetries
  THEN setTimeout(s, "retry", task.retryCount + 1, RetryDelayMs)
  ELSE IF task.retryCount >= MaxStartFightRetries
       THEN [emit(s, startFailed) EXCEPT !.gamePhase = IDLE]
       ELSE s

(* startFightingPhase after loadBettingData returned *)
startFightingPhaseFinish(s) ==
  setGameTimer(emit(s, [ event |-> "phase_change", gamePhase |-> s.gamePhase ]),
               "fight", FIGHT_DURATION * 1000)

(* loadBettingData up to its first await *)
loadBettingData(s, task) ==
  IF s.bettingRoundPDA = Null THEN startFightingPhaseFinish(s)
  ELSE suspend(s, [task EXCEPT !.pc = "loadBettingData.fetchBettingRound"])

(* startFightingPhase after startFightPhase returned *)
startFightingPhaseResume(s, task, code) ==
  LET s0 == resume(s, task)
  IN IF code = "ok"
     THEN loadBettingData(
            [s0 EXCEPT !.gamePhase = FIGHTING,
                       !.fightEndTime =
                         Some(DateNow(s0, 0) + FIGHT_DURATION * 1000)],
            task)
     ELSE startFightingPhaseCatch(s0, task, code)

(* loadBettingData after bettingRound.fetch returned *)
loadBettingDataFetched(s, task, ok, acct) ==
  LET s0 == resume(s, task)
  IN IF ~ok THEN startFightingPhaseCatch(s0, task, "error")
     ELSE suspend(rpc([s0 EXCEPT !.totalDeathBets = acct.totalDeathBets,
                                 !.totalSurvivalBets = acct.totalSurvivalBets],
                      "getProgramAccounts", ""),
                  [task EXCEPT !.pc = "loadBettingData.getProgramAccounts",
                               !.acct = acct])

(* The for loop of loadBettingData, at its head *)
loadBettingDataLoop(s, task) ==
  IF task.bets = <<>>
  THEN startFightingPhaseFinish(
         emit(s, [ event |-> "betting_update",
                   totalDeathBets |-> s.totalDeathBets,
                   totalSurvivalBets |-> s.totalSurvivalBets,
                   totalBets |-> Cardinality(s.onChainBets) ]))
  ELSE suspend(s, [task EXCEPT !.pc = "loadBettingData.fetchBet"])

(* loadBettingData after getProgramAccounts returned *)
loadBettingDataScanned(s, task, ok) ==
  LET s0 == resume(s, task)
  IN IF ~ok THEN startFightingPhaseCatch(s0, task, "error")
     ELSE loadBettingDataLoop([s0 EXCEPT !.onChainBets = {}],
                              [task EXCEPT !.bets = BetAccountsOf(task.acct)])

(* onChainBets.set(bettor, info) *)
setBet(map, bet) ==
  { b \in map : b.bettor # bet.bettor } \cup { bet }

(* loadBettingData after one betAccount.fetch returned *)
loadBettingDataBet(s, task, ok) ==
  LET s0 == resume(s, task)
      s1 == IF ok THEN [s0 EXCEPT !.onChainBets = setBet(@, Head(task.bets))]
            ELSE s0
  IN loadBettingDataLoop(s1, [task EXCEPT !.bets = Tail(@)])


(* endFight up to the await of the endFight call *)
endFight(s, reason) ==
  IF s.gamePhase # FIGHTING THEN s
  ELSE
    LET s1 == [s EXCEPT !.timers = clearTimeout(@, s.gameTimer)]
        bossDefeated == reason = "defeated" \/ s.bossHP = 0
    IN suspend(rpc(s1, "endFight", ""),
               [Task("endFight", "endFight")
                  EXCEPT !.bossDefeated = bossDefeated,
                         !.round = s.currentRoundId,
                         !.sent = s.bettingRoundPDA # Null])

(* endFight after processPayouts returned *)
endFightFinish(s, task) ==
  LET s1 == [s EXCEPT !.gamePhase = ENDED]
  IN emit(s1, [ event |-> "fight_ended", gamePhase |-> s1.gamePhase,
                bossDefeated |-> task.bossDefeated,
                results |-> buildResults(s1, task.bossDefeated) ])

(* processPayouts up to its first await *)
processPayouts(s, task) ==
  IF s.bettingRoundPDA = Null THEN endFightFinish(s, task)
  ELSE suspend(s, [task EXCEPT !.pc = "processPayouts.fetchBettingRound"])

(* endFight after the endFight call returned; an error is only logged *)
endFightResume(s, task, ok) ==
  LET s0 == resume(s, task)
  IN IF ok THEN processPayouts(s0, task) ELSE s0

winningPrediction(acct) == IF acct.bossDefeated THEN "death" ELSE "survival"
totalWinnerBets(acct) ==
  IF acct.bossDefeated THEN acct.totalDeathBets ELSE acct.totalSurvivalBets
totalLoserBets(acct) ==
  IF acct.bossDefeated THEN acct.totalSurvivalBets ELSE acct.totalDeathBets

(* processPayouts after its last claimFees: the summary, then back in endFight *)
processPayoutsFinish(s, task) ==
  endFightFinish(
    emit(s, [ event |-> "payouts_processed",
              bossDefeated |-> task.acct.bossDefeated,
              winningPrediction |-> winningPrediction(task.acct),
              totalPrizePool |-> totalLoserBets(task.acct),
              totalWinnerBets |-> totalWinnerBets(task.acct),
              winningBets |-> Len(task.payoutResults),
              payouts |-> task.payoutResults ]),
    task)

(* claimFees up to its await; without addresses it returns at once.  pc     *)
(* tells the two call sites of processPayouts apart.                        *)
claimFees(s, task, pc) ==
  IF s.bettingRoundPDA = Null \/ s.escrowPDA = Null
  THEN IF pc = "processPayouts.claimFees"
       THEN processPayoutsFinish(s, task)
       ELSE endFightFinish(s, task)
  ELSE suspend(rpc(s, "claimFees", ""), [task EXCEPT !.pc = pc])

(* claimFees after the call returned: an error is only logged *)
claimFeesResume(s, task) ==
  LET s0 == resume(s, task)
  IN IF task.pc = "processPayouts.claimFees"
     THEN processPayoutsFinish(s0, task)
     ELSE endFightFinish(s0, task)

(* processPayouts after bettingRound.fetch returned *)
processPayoutsFetched(s, task, ok, acct) ==
  LET s0 == resume(s, task)
      t1 == [task EXCEPT !.acct = acct]
  IN IF ~ok THEN s0
     ELSE IF totalWinnerBets(acct) = 0
          THEN claimFees(s0, t1, "processPayouts.claimFees.noWinners")
          ELSE suspend(rpc(s0, "getProgramAccounts", ""),
                       [t1 EXCEPT !.pc = "processPayouts.getProgramAccounts"])

(* The for loop of processPayouts, at its head *)
processPayoutsLoop(s, task) ==
  IF task.bets = <<>> THEN claimFees(s, task, "processPayouts.claimFees")
  ELSE suspend(s, [task EXCEPT !.pc = "processPayouts.fetchBet"])

(* processPayouts after getProgramAccounts returned *)
processPayoutsScanned(s, task, ok) ==
  LET s0 == resume(s, task)
  IN IF ~ok THEN s0
     ELSE processPayoutsLoop(s0, [task EXCEPT !.bets = BetAccountsOf(task.acct)])

(* Arithmetic of Numbers that hold non-negative integers.  A product or a *)
(* quotient is the exact result rounded to the nearest Number, ties to the  *)
(* even significand.                                                        *)
RECURSIVE Pow2(_)
Pow2(n) == IF n = 0 THEN 1 ELSE 2 * Pow2(n - 1)

roundHalfEven(num, den) ==
  LET q == num \div den
      r == num % den
  IN IF 2 * r > den \/ (2 * r = den /\ q % 2 = 1) THEN q + 1 ELSE q

(* the least e >= e0 with n < 2^(SignificandBits + e) *)
RECURSIVE exponentOf(_, _)
exponentOf(n, e0) ==
  IF n < Pow2(SignificandBits + e0) THEN e0 ELSE exponentOf(n, e0 + 1)

(* the Number nearest to the integer n: the result of * and + *)
nearestNumber(n) ==
  LET e == exponentOf(n, 0)
  IN roundHalfEven(n, Pow2(e)) * Pow2(e)

(* the least f >= f0 with a * 2^f >= 2^(SignificandBits - 1) * b *)
RECURSIVE fractionBits(_, _, _)
fractionBits(a, b, f0) ==
  IF a * Pow2(f0) >= Pow2(SignificandBits - 1) * b THEN f0
  ELSE fractionBits(a, b, f0 + 1)

(* Math.floor(a / b): the quotient is rounded to a Number, then floored *)
floorOfQuotient(a, b) ==
  IF a = 0 THEN 0
  ELSE IF a \div b >= Pow2(SignificandBits - 1)
       THEN LET e == exponentOf(a \div b, 0)
            IN roundHalfEven(a, b * Pow2(e)) * Pow2(e)
       ELSE LET f == fractionBits(a, b, 0)
            IN roundHalfEven(a * Pow2(f), b) \div Pow2(f)

(* The payout of one winning bet, in lamports *)
payoutOf(acct, bet) ==
  LET feeAmount ==
        floorOfQuotient(nearestNumber(totalLoserBets(acct) * acct.feePercentage),
                        100)
      prizePool == totalLoserBets(acct) - feeAmount
      prizeShare ==
        floorOfQuotient(nearestNumber(prizePool * bet.amount),
                        totalWinnerBets(acct))
  IN [ username |-> bet.username, wallet |-> bet.bettor,
       betAmount |-> bet.amount, prizeShare |-> prizeShare,
       totalPayout |-> nearestNumber(bet.amount + prizeShare) ]

(* processPayouts after one betAccount.fetch returned *)
processPayoutsBet(s, task, ok) ==
  LET s0 == resume(s, task)
      bet == Head(task.bets)
  IN IF ok /\ bet.prediction = winningPrediction(task.acct)
     THEN suspend(rpc(s0, "claimPayout", bet.bettor),
                  [task EXCEPT !.pc = "processPayouts.claimPayout",
                               !.sent = s0.bettingRoundPDA # Null
                                        /\ s0.escrowPDA # Null])
     ELSE processPayoutsLoop(s0, [task EXCEPT !.bets = Tail(@)])

(* processPayouts after one claimPayout returned *)
processPayoutsClaimed(s, task, ok) ==
  LET s0 == resume(s, task)
      t1 == [task EXCEPT !.bets = Tail(@), !.sent = TRUE,
                         !.payoutResults =
                           IF ok THEN Append(@, payoutOf(task.acct, Head(task.bets)))
                           ELSE @]
  IN processPayoutsLoop(s0, t1)


(* ---------------------------------------------------------------------- *)
(* Admin commands                                                          *)
(* ---------------------------------------------------------------------- *)
Sockets == {"socket1", "socket2"}

(* The payloads of the admin events: none, or a key (absent, right, wrong) *)
(* with a wallet field (absent, the configured one, another one, an array  *)
(* holding the configured one)                                             *)
AdminData ==
  { Null } \cup
  { Some([ adminKey |-> k, walletAddress |-> w ]) :
      k \in { Null, ADMIN_SECRET, <<"guess">> },
      w \in { Undefined, ADMIN_WALLET, JsString("otherWallet"),
              JsObject(ADMIN_WALLET.text) } }

(* the payload of the admin page of a deployment with ADMIN_WALLET set *)
AdminPage == { Some([ adminKey |-> ADMIN_SECRET, walletAddress |-> ADMIN_WALLET ]) }
(* the same, and an event sent without payload *)
AdminEvents == AdminPage \cup { Null }

adminError(message) == [ event |-> "admin:error", message |-> message ]

(* socket.on('admin:reset'): does the handler reach resetGame() *)
resetAuthorized(data) ==
  /\ data # Null
  /\ data[1].adminKey # Null
  /\ truthy(data[1].walletAddress)
  /\ strictEquals(data[1].walletAddress, adminWallet)
  /\ data[1].adminKey = ADMIN_SECRET

(* socket.on('admin:reset') *)
adminReset(s, socket, data) ==
  IF data = Null \/ data[1].adminKey = Null \/ ~truthy(data[1].walletAddress)
  THEN socketEmit(s, socket, adminError("Missing credentials"))
  ELSE IF ~strictEquals(data[1].walletAddress, adminWallet)
  THEN socketEmit(s, socket, adminError("Unauthorized wallet"))
  ELSE IF data[1].adminKey = ADMIN_SECRET
  THEN [resetGame(s) EXCEPT !.resets = @ + 1]
  ELSE socketEmit(s, socket, adminError("Invalid admin key"))

(* socket.on('admin:start_betting'): does the handler reach startBettingPhase() *)
startBettingAuthorized(data) ==
  /\ data # Null
  /\ data[1].adminKey = ADMIN_SECRET
  /\ looseEquals(data[1].walletAddress, adminWallet)

(* socket.on('admin:start_betting') *)
adminStartBetting(s, socket, data, dt) ==
  IF startBettingAuthorized(data)
  THEN startBettingPhase(s, dt)
  ELSE socketEmit(s, socket, adminError("Unauthorized"))

(* ---------------------------------------------------------------------- *)
(* POST /api/place-bet                                                     *)
(* ---------------------------------------------------------------------- *)
(* The requests: an id to answer to, and the body *)
BetRequests ==
  { [ id |-> "request1", walletAddress |-> "w1", username |-> "alice",
      amount |-> 2, prediction |-> "death" ] }

(* The ledger's answer to the fetch of the bet account: the account, or an *)
(* error, which a missing account gives and a failing connection as well   *)
BetFetchAnswers ==
  { [ ok |-> TRUE, betExists |-> TRUE ],
    [ ok |-> FALSE, betExists |-> FALSE ],
    [ ok |-> FALSE, betExists |-> TRUE ] }

(* Bodies of POST /api/bet-notification: a bet on either side, which a     *)
(* page may send in any phase and more than once                           *)
BetNotifications ==
  { [ id |-> "notification1", walletAddress |-> "w1", username |-> "alice",
      amount |-> 1, prediction |-> "death", signature |-> "sig1" ],
    [ id |-> "notification2", walletAddress |-> "w2", username |-> "bob",
      amount |-> 1, prediction |-> "survival", signature |-> "sig2" ] }

(* POST /api/bet-notification *)
betNotification(s, req) ==
  LET s1 == [s EXCEPT !.onChainBets =
               setBet(@, [ bettor |-> req.walletAddress,
                           username |-> req.username,
                           amount |-> req.amount * LAMPORTS_PER_SOL,
                           prediction |-> req.prediction,
                           signature |-> req.signature,
                           timestamp |-> DateNow(s, 0) ])]
      s2 == IF req.prediction = "death"
            THEN [s1 EXCEPT !.totalDeathBets = @ + req.amount * LAMPORTS_PER_SOL]
            ELSE [s1 EXCEPT !.totalSurvivalBets = @ + req.amount * LAMPORTS_PER_SOL]
      s3 == emit(s2, [ event |-> "betting_update",
                       totalDeathBets |-> s2.totalDeathBets,
                       totalSurvivalBets |-> s2.totalSurvivalBets,
                       totalBets |-> Cardinality(s2.onChainBets) ])
  IN socketEmit(s3, req.id,
                [ event |-> "response", status |-> 200, success |-> TRUE ])

(* res.status(code).json({ error }) *)
refuse(s, req, status, error) ==
  socketEmit(s, req.id, [ event |-> "response", status |-> status, error |-> error ])

(* the handler up to the await of betAccount.fetch *)
placeBet(s, req) ==
  IF s.gamePhase # BETTING THEN refuse(s, req, 400, "Not in betting phase")
  ELSE IF s.currentRoundId = 0 THEN refuse(s, req, 400, "No active betting round")
  ELSE suspend(s, [ fn |-> "placeBet", pc |-> "placeBet.fetchBet", req |-> req,
                    betPDA |-> getBetPDA(s.currentRoundId, req.walletAddress),
                    betExists |-> FALSE, tx |-> Null ])

(* after betAccount.fetch: an account found refuses the bet, any error     *)
(* lets it through; the transaction is built on the addresses the server   *)
(* holds now, and cannot be built on a null address                        *)
placeBetFetched(s, task, answer) ==
  LET s0 == resume(s, task)
  IN IF answer.ok
     THEN refuse(s0, task.req, 400, "Bet already placed for this round")
     ELSE IF s0.bettingRoundPDA = Null \/ s0.escrowPDA = Null
     THEN refuse(s0, task.req, 500, "Error preparing bet transaction")
     ELSE suspend(s0, [task EXCEPT
            !.pc = "placeBet.getLatestBlockhash",
            !.betExists = answer.betExists,
            !.tx = Some([ op |-> "placeBet",
                          bettingRound |-> s0.bettingRoundPDA,
                          betAccount |-> task.betPDA,
                          escrow |-> s0.escrowPDA,
                          bettor |-> task.req.walletAddress,
                          amount |-> task.req.amount,
                          prediction |-> task.req.prediction,
                          username |-> task.req.username ])])

(* after connection.getLatestBlockhash: the transaction is returned *)
placeBetPrepared(s, task, ok) ==
  LET s0 == resume(s, task)
  IN IF ok
     THEN socketEmit(s0, task.req.id,
            [ event |-> "response", status |-> 200, transaction |-> task.tx[1] ])
     ELSE refuse(s0, task.req, 500, "Error preparing bet transaction")

(* ---------------------------------------------------------------------- *)
(* Overlay sockets                                                         *)
(* ---------------------------------------------------------------------- *)
(* chronological.slice(-10) *)
lastTen(arr) == SubSeq(arr, Max(1, Len(arr) - 9), Len(arr))

(* io.on('connection'): the socket is sent the state and shows its phase.  *)
(* The clock is read for the message only.                                 *)
onConnection(s, socket, dt) ==
  LET joined == [ x \in DOMAIN s.overlays \cup { socket } |->
                    IF x = socket THEN s.gamePhase ELSE s.overlays[x] ]
  IN socketEmit([s EXCEPT !.overlays = joined], socket,
       [ event |-> "state",
         gamePhase |-> s.gamePhase,
         currentRoundId |-> s.currentRoundId,
         bossHP |-> s.bossHP,
         maxHP |-> INITIAL_HP,
         top |-> getTop(s, 3),
         lastHitter |-> s.lastHitter,
         chronological |-> lastTen(s.chronological),
         totalDeathBets |-> s.totalDeathBets,
         totalSurvivalBets |-> s.totalSurvivalBets,
         totalBets |-> Cardinality(s.onChainBets),
         timeRemaining |->
           IF s.gamePhase = BETTING
           THEN Max(0, s.bettingEndTime[1] - DateNow(s, dt)) ELSE 0,
         fightTimeRemaining |->
           IF s.gamePhase = FIGHTING
           THEN Max(0, s.fightEndTime[1] - DateNow(s, dt)) ELSE 0 ])

(* socket.on('disconnect') *)
onDisconnect(s, socket) ==
  [s EXCEPT !.overlays = [ x \in DOMAIN @ \ { socket } |-> @[x] ]]

(* ---------------------------------------------------------------------- *)
(* Chat ingestor                                                           *)
(* ---------------------------------------------------------------------- *)
(* A PumpChatClient is "connecting" or "connected" (live), "lost" (its     *)
(* connection is gone and it reconnects by itself), "closing" (the server  *)
(* has called disconnect() on an open connection, whose close is still to *)
(* be reported) or "closed".                                               *)
Live == { "connecting", "connected" }

(* pumpSocket.disconnect() *)
disconnect(status) ==
  IF status \in Live THEN "closing"
  ELSE IF status = "lost" THEN "closed"
  ELSE status

(* A connectToPumpFun that lets the client it replaces run on *)
connectToPumpFun_keepsClient(s) ==
  IF COIN_ADDRESS = "" THEN s
  ELSE IF s.isConnecting \/ s.isConnected THEN s
  ELSE [s EXCEPT !.isConnecting = TRUE,
                 !.clients = Append(@, "connecting")]

connectToPumpFun(s) ==
  IF COIN_ADDRESS = "" THEN s
  ELSE IF s.isConnecting \/ s.isConnected THEN s
  ELSE LET n == Len(s.clients)
           closed == IF n > 0
                     THEN [s.clients EXCEPT ![n] = disconnect(@)]
                     ELSE s.clients
       IN [s EXCEPT !.isConnecting = TRUE,
                    !.clients = Append(closed, "connecting")]

broadcastConnectionStatus(s, connected) ==
  emit(s, [ event |-> "connection_status", connected |-> connected ])

(* pumpSocket.on('connected') *)
onConnected(s) ==
  broadcastConnectionStatus([s EXCEPT !.reconnectAttempts = 0,
                                      !.isConnecting = FALSE,
                                      !.isConnected = TRUE], TRUE)

(* pumpSocket.on('error') *)
onError(s) ==
  broadcastConnectionStatus([s EXCEPT !.isConnected = FALSE,
                                      !.isConnecting = FALSE], FALSE)

(* pumpSocket.on('disconnected') *)
onDisconnected(s) ==
  LET s1 == broadcastConnectionStatus([s EXCEPT !.isConnected = FALSE,
                                                !.isConnecting = FALSE], FALSE)
  IN IF s1.reconnectAttempts < maxReconnectAttempts
     THEN setTimeout([s1 EXCEPT !.reconnectAttempts = @ + 1],
                     "reconnect", 0, reconnectInterval)
     ELSE s1

(* ---------------------------------------------------------------------- *)
(* Actions                                                                 *)
(* ---------------------------------------------------------------------- *)
Waiting(pc) == { task \in BagToSet(tasks) : task.pc = pc }

AdminReset(socket, data, maxResets) ==
  /\ resets < maxResets
  /\ Assign(adminReset(S, socket, data))

AdminStartBetting(socket, data, dt, maxRounds) ==
  /\ rounds < maxRounds
  /\ Assign(adminStartBetting(S, socket, data, dt))

(* pumpSocket.on('message') *)
PumpMessage(m, maxChat) ==
  /\ inFightingPhase(S) => Len(chronological) < maxChat
  /\ Assign(IF inFightingPhase(S)
            THEN handleChatMessage(S, m.username, m.message, m.timestamp)
            ELSE S)

(* GET /test?user=&msg= : an absent or empty parameter takes its default *)
TestEndpoint(q, maxChat) ==
  /\ inFightingPhase(S) => Len(chronological) < maxChat
  /\ LET user == IF q.user = Null THEN "tester" ELSE q.user[1]
         msg == IF q.msg = Null \/ q.msg = Some(<<>>)
                THEN <<"H", "I", "T">> ELSE q.msg[1]
     IN Assign(IF inFightingPhase(S)
               THEN handleChatMessage(S, user, msg, DateNow(S, 0))
               ELSE S)

(* A pending timer runs out.  A timer set earlier with an equal or shorter  *)
(* delay runs out first.                                                    *)
TimerFires(i) ==
  /\ i \in DOMAIN timers
  /\ timers[i].kind # "reconnect"
  /\ \A j \in 1..(i - 1) : timers[j].delay > timers[i].delay
  /\ LET t == timers[i]
         s0 == [S EXCEPT !.timers = SubSeq(@, 1, i - 1) \o SubSeq(@, i + 1, Len(@)),
                         !.timePassed = TRUE]
     IN Assign(CASE t.kind = "betting" -> startFightingPhase(s0, 0)
                 [] t.kind = "retry" -> startFightingPhase(s0, t.retryCount)
                 [] t.kind = "fight" -> endFight(s0, "timeout"))

InitializeBettingRoundReturns(task, ok) ==
  /\ task \in Waiting("initializeBettingRound")
  /\ ok => task.sent
  /\ Assign(startBettingPhaseResume(S, task, ok))

StartFightPhaseReturns(task, code) ==
  /\ task \in Waiting("startFightPhase")
  /\ code = "ok" => task.sent
  /\ Assign(startFightingPhaseResume(S, task, code))

LoadFetchBettingRoundReturns(task, ok, bets) ==
  /\ task \in Waiting("loadBettingData.fetchBettingRound")
  /\ ~ok => bets = <<>>
  /\ Assign(loadBettingDataFetched(S, task, ok, RoundAccount(bets, FALSE)))

LoadGetProgramAccountsReturns(task, ok) ==
  /\ task \in Waiting("loadBettingData.getProgramAccounts")
  /\ Assign(loadBettingDataScanned(S, task, ok))

LoadFetchBetReturns(task, ok) ==
  /\ task \in Waiting("loadBettingData.fetchBet")
  /\ Assign(loadBettingDataBet(S, task, ok))

EndFightReturns(task, ok) ==
  /\ task \in Waiting("endFight")
  /\ ok => task.sent
  /\ Assign(endFightResume(S, task, ok))

PayFetchBettingRoundReturns(task, ok, bets, defeated) ==
  /\ task \in Waiting("processPayouts.fetchBettingRound")
  /\ ~ok => bets = <<>> /\ ~defeated
  /\ Assign(processPayoutsFetched(S, task, ok, RoundAccount(bets, defeated)))

PayGetProgramAccountsReturns(task, ok) ==
  /\ task \in Waiting("processPayouts.getProgramAccounts")
  /\ Assign(processPayoutsScanned(S, task, ok))

PayFetchBetReturns(task, ok) ==
  /\ task \in Waiting("processPayouts.fetchBet")
  /\ Assign(processPayoutsBet(S, task, ok))

ClaimPayoutReturns(task, ok) ==
  /\ task \in Waiting("processPayouts.claimPayout")
  /\ ok => task.sent
  /\ Assign(processPayoutsClaimed(S, task, ok))

ClaimFeesReturns(task) ==
  /\ task \in Waiting("processPayouts.claimFees")
                \cup Waiting("processPayouts.claimFees.noWinners")
  /\ Assign(claimFeesResume(S, task))

(* server.listen callback: the server starts its chat ingestor *)
ServerListening ==
  /\ clients = <<>>
  /\ Assign(connectToPumpFun(S))

(* The reconnect delay runs out *)
ReconnectTimerFires(i, maxClients) ==
  /\ i \in DOMAIN timers
  /\ timers[i].kind = "reconnect"
  /\ \A j \in 1..(i - 1) : timers[j].delay > timers[i].delay
  /\ (~isConnecting /\ ~isConnected) => Len(clients) < maxClients
  /\ Assign(connectToPumpFun(
       [S EXCEPT !.timers = SubSeq(@, 1, i - 1) \o SubSeq(@, i + 1, Len(@)),
                 !.timePassed = TRUE]))

(* A client reports its connection: the first one, or one it has made      *)
(* again by itself                                                         *)
ClientConnected(c) ==
  /\ c \in DOMAIN clients
  /\ clients[c] \in { "connecting", "lost" }
  /\ Assign(onConnected([S EXCEPT !.clients[c] = "connected"]))

(* A client reports an error of its connection or of the protocol *)
ClientError(c) ==
  /\ c \in DOMAIN clients
  /\ clients[c] \in Live
  /\ Assign(onError(S))

(* A client reports that its connection is gone: an open one that broke,   *)
(* one the server closed, or one the client failed to make again           *)
ClientDisconnected(c, maxPending) ==
  /\ c \in DOMAIN clients
  /\ clients[c] \in Live \cup { "lost", "closing" }
  /\ reconnectAttempts < maxReconnectAttempts => Len(timers) < maxPending
  /\ Assign(onDisconnected(
       [S EXCEPT !.clients[c] = IF @ = "closing" THEN "closed" ELSE "lost"]))

(* A connected client delivers a chat message *)
ClientMessage(c, m, maxChat) ==
  /\ c \in DOMAIN clients
  /\ clients[c] = "connected"
  /\ PumpMessage(m, maxChat)

(* An overlay page connects *)
Connection(socket, dt) ==
  /\ socket \notin DOMAIN overlays
  /\ Assign(onConnection(S, socket, dt))

(* An overlay page goes away *)
Disconnect(socket) ==
  /\ socket \in DOMAIN overlays
  /\ Assign(onDisconnect(S, socket))

(* POST /api/place-bet: one request of an id at a time *)
PlaceBet(req) ==
  /\ \A task \in BagToSet(tasks) : task.fn = "placeBet" => task.req.id # req.id
  /\ Assign(placeBet(S, req))

PlaceBetFetchReturns(task, answer) ==
  /\ task \in Waiting("placeBet.fetchBet")
  /\ Assign(placeBetFetched(S, task, answer))

PlaceBetBlockhashReturns(task, ok) ==
  /\ task \in Waiting("placeBet.getLatestBlockhash")
  /\ Assign(placeBetPrepared(S, task, ok))

(* app.post('/api/bet-notification'); the sums stay within maxLamports *)
BetNotification(req, maxLamports) ==
  /\ totalDeathBets <= maxLamports - req.amount * LAMPORTS_PER_SOL
  /\ totalSurvivalBets <= maxLamports - req.amount * LAMPORTS_PER_SOL
  /\ Assign(betNotification(S, req))

AllTasks == BagToSet(tasks)
StartFightCodes == {"ok", "BettingStillActive", "error"}

(* A ledger call comes back *)
RpcReturns(scenarios) ==
  \/ \E task \in AllTasks, ok \in BOOLEAN : InitializeBettingRoundReturns(task, ok)
  \/ \E task \in AllTasks, code \in StartFightCodes : StartFightPhaseReturns(task, code)
  \/ \E task \in AllTasks, ok \in BOOLEAN, bets \in scenarios :
       LoadFetchBettingRoundReturns(task, ok, bets)
  \/ \E task \in AllTasks, ok \in BOOLEAN : LoadGetProgramAccountsReturns(task, ok)
  \/ \E task \in AllTasks, ok \in BOOLEAN : LoadFetchBetReturns(task, ok)
  \/ \E task \in AllTasks, ok \in BOOLEAN : EndFightReturns(task, ok)
  \/ \E task \in AllTasks, ok \in BOOLEAN, bets \in scenarios, defeated \in BOOLEAN :
       PayFetchBettingRoundReturns(task, ok, bets, defeated)
  \/ \E task \in AllTasks, ok \in BOOLEAN : PayGetProgramAccountsReturns(task, ok)
  \/ \E task \in AllTasks, ok \in BOOLEAN : PayFetchBetReturns(task, ok)
  \/ \E task \in AllTasks, ok \in BOOLEAN : ClaimPayoutReturns(task, ok)
  \/ \E task \in AllTasks : ClaimFeesReturns(task)

AdminStep(payloads, maxRounds, maxResets) ==
  \/ \E socket \in Sockets, data \in payloads : AdminReset(socket, data, maxResets)
  \/ \E socket \in Sockets, data \in payloads, dt \in Elapsed :
       AdminStartBetting(socket, data, dt, maxRounds)

ChatStep(maxChat) ==
  \/ \E m \in PumpMessages : PumpMessage(m, maxChat)
  \/ \E q \in TestQueries : TestEndpoint(q, maxChat)

TimerStep == \E i \in DOMAIN timers : TimerFires(i)

(* One round at a time, with a fight's worth of chat *)
Next ==
  \/ AdminStep(AdminEvents, MaxRounds, MaxResets)
  \/ ChatStep(MaxChat)
  \/ TimerStep
  \/ RpcReturns(BetScenarios)

Spec == Init /\ [][Next]_vars

(* A second round started while the first is still under way *)
NextRace ==
  \/ AdminStep(AdminPage, RaceRounds, RaceResets)
  \/ ChatStep(RaceChat)
  \/ TimerStep
  \/ RpcReturns(RaceScenarios)

SpecRace == Init /\ [][NextRace]_vars

(* The admin events with any payload, in a deployment with or without      *)
(* ADMIN_WALLET                                                            *)
InitAdmin ==
  InitServer /\ adminWallet \in { ADMIN_WALLET, Undefined } /\ ChatConnected

NextAdmin ==
  \/ AdminStep(AdminData, MaxRounds, MaxResets)
  \/ ChatStep(RaceChat)
  \/ TimerStep
  \/ RpcReturns(RaceScenarios)

SpecAdmin == InitAdmin /\ [][NextAdmin]_vars

(* Rounds that follow each other, with bets asked for at any time *)
NextBet ==
  \/ AdminStep(AdminPage, RaceRounds, RaceResets)
  \/ TimerStep
  \/ RpcReturns(RaceScenarios)
  \/ \E req \in BetRequests : PlaceBet(req)
  \/ \E task \in AllTasks, answer \in BetFetchAnswers :
       PlaceBetFetchReturns(task, answer)
  \/ \E task \in AllTasks, ok \in BOOLEAN : PlaceBetBlockhashReturns(task, ok)

SpecBet == Init /\ [][NextBet]_vars

(* One round, with bet notifications posted at any time *)
NextNotify ==
  \/ AdminStep(AdminPage, MaxRounds, MaxResets)
  \/ TimerStep
  \/ RpcReturns(RaceScenarios)
  \/ \E req \in BetNotifications : BetNotification(req, MaxNotifiedLamports)

SpecNotify == Init /\ [][NextNotify]_vars

(* One round with an overlay page that comes and goes at any time *)
OverlayPages == { "socket1" }

NextOverlay ==
  \/ AdminStep(AdminPage, MaxRounds, MaxResets)
  \/ ChatStep(RaceChat)
  \/ TimerStep
  \/ RpcReturns(RaceScenarios)
  \/ \E socket \in OverlayPages, dt \in Elapsed : Connection(socket, dt)
  \/ \E socket \in OverlayPages : Disconnect(socket)

SpecOverlay == Init /\ [][NextOverlay]_vars

(* The chat ingestor on its own, from the start of the server *)
InitIngest == InitServer /\ adminWallet = ADMIN_WALLET /\ InitIngestor

NextIngest ==
  \/ ServerListening
  \/ \E i \in DOMAIN timers : ReconnectTimerFires(i, MaxClients)
  \/ \E c \in DOMAIN clients : ClientConnected(c)
  \/ \E c \in DOMAIN clients : ClientError(c)
  \/ \E c \in DOMAIN clients : ClientDisconnected(c, MaxPending)
  \/ \E c \in DOMAIN clients, m \in PumpMessages : ClientMessage(c, m, MaxChat)

SpecIngest == InitIngest /\ [][NextIngest]_vars

(* The settlement of one round on its own: the server as it stands when the *)
(* endFight call of its first round has come back and processPayouts awaits *)
(* the round account, and from there the ledger's answers only.             *)
InitSettle ==
  /\ gamePhase = FIGHTING
  /\ currentRoundId = 1
  /\ bossHP = INITIAL_HP
  /\ userHits = <<>>
  /\ chronological = <<>>
  /\ lastHitter = Null
  /\ totalHits = 0
  /\ bettingEndTime = Some(1 + BETTING_DURATION * 1000)
  /\ fightEndTime = Some(2 + FIGHT_DURATION * 1000)
  /\ gameTimer = Some("timeout")
  /\ bettingRoundPDA = Some(getBettingRoundPDA(1))
  /\ escrowPDA = Some(getEscrowPDA(1))
  /\ onChainBets = {}
  /\ totalDeathBets = 0
  /\ totalSurvivalBets = 0
  /\ tasks = SetToBag({ [Task("endFight", "endFight")
                           EXCEPT !.pc = "processPayouts.fetchBettingRound",
                                  !.round = 1] })
  /\ timers = <<>>
  /\ now = 1
  /\ timePassed = TRUE
  /\ broadcasts = <<>>
  /\ rpcCalls = <<>>
  /\ rounds = 1
  /\ resets = 0
  /\ adminWallet = ADMIN_WALLET
  /\ replies = <<>>
  /\ ChatConnected
  /\ overlays = <<>>

NextSettle ==
  \/ \E task \in AllTasks, ok \in BOOLEAN, bets \in PayoutScenarios,
        defeated \in BOOLEAN :
       PayFetchBettingRoundReturns(task, ok, bets, defeated)
  \/ \E task \in AllTasks, ok \in BOOLEAN : PayGetProgramAccountsReturns(task, ok)
  \/ \E task \in AllTasks, ok \in BOOLEAN : PayFetchBetReturns(task, ok)
  \/ \E task \in AllTasks, ok \in BOOLEAN : ClaimPayoutReturns(task, ok)
  \/ \E task \in AllTasks : ClaimFeesReturns(task)

SpecSettle == InitSettle /\ [][NextSettle]_vars

(* The chat of one fight on its own: the server as it stands when the first *)
(* round has just begun its fight, and from there chat messages only.      *)
InitFight ==
  /\ gamePhase = FIGHTING
  /\ currentRoundId = 1
  /\ bossHP = INITIAL_HP
  /\ userHits = <<>>
  /\ chronological = <<>>
  /\ lastHitter = Null
  /\ totalHits = 0
  /\ bettingEndTime = Some(1 + BETTING_DURATION * 1000)
  /\ fightEndTime = Some(2 + FIGHT_DURATION * 1000)
  /\ gameTimer = Some("timeout")
  /\ bettingRoundPDA = Some(getBettingRoundPDA(1))
  /\ escrowPDA = Some(getEscrowPDA(1))
  /\ onChainBets = {}
  /\ totalDeathBets = 0
  /\ totalSurvivalBets = 0
  /\ tasks = EmptyBag
  /\ timers = << [ kind |-> "fight", retryCount |-> 0,
                   delay |-> FIGHT_DURATION * 1000, held |-> TRUE ] >>
  /\ now = 1
  /\ timePassed = TRUE
  /\ broadcasts = << [ event |-> "betting_update", totalDeathBets |-> 0,
                       totalSurvivalBets |-> 0, totalBets |-> 0 ],
                     [ event |-> "phase_change", gamePhase |-> FIGHTING ] >>
  /\ rpcCalls = <<>>
  /\ rounds = 1
  /\ resets = 0
  /\ adminWallet = ADMIN_WALLET
  /\ replies = <<>>
  /\ ChatConnected
  /\ overlays = <<>>

NextFight == \E m \in FightMessages : PumpMessage(m, MaxChat)

SpecFight == InitFight /\ [][NextFight]_vars

(* The chat of one fight with its timestamps *)
NextStamped == \E m \in StampedMessages : PumpMessage(m, MaxChat)

SpecStamped == InitFight /\ [][NextStamped]_vars

(***************************************************************************)
(* Properties                                                              *)
(***************************************************************************)

(* C1: the boss's health is always between 0 and the configured maximum,
   whatever sequence of damage and heal events is applied. *)
C1_HPInRange == 0 <= bossHP /\ bossHP <= INITIAL_HP

(* A damage event is applied to a boss that is already at 0 *)
C1_DamageAtZero ==
  /\ bossHP = 0
  /\ totalHits > INITIAL_HP
  /\ \E i \in DOMAIN broadcasts :
       broadcasts[i].event = "update" /\ broadcasts[i].latest.delta = -1

RECURSIVE SumHits(_)
SumHits(map) ==
  IF map = <<>> THEN 0 ELSE map[1].hits + SumHits(Tail(map))

DamageEntries(log) == { i \in DOMAIN log : log[i].delta = -1 }

(* C2: the round's total hit count equals the sum of the per-user hit
   counts and equals the number of damage entries in the round's log. *)
C2_TotalHitsConsistent ==
  /\ totalHits = SumHits(userHits)
  /\ totalHits = Cardinality(DamageEntries(chronological))

(* Two users have hit and a heal is in the log as well *)
C2_HitsAndHeals ==
  /\ Len(userHits) = 2
  /\ totalHits = 2
  /\ \E i \in DOMAIN chronological : chronological[i].delta = 1

AllowedEdge(from, to) ==
  \/ to = IDLE
  \/ <<from, to>> \in { <<IDLE, BETTING>>, <<BETTING, FIGHTING>>,
                        <<FIGHTING, ENDED>>, <<ENDED, BETTING>> }

(* C3: every change of the phase is one of the allowed edges Idle->Betting,
   Betting->Fighting, Fighting->Ended, Ended->Betting or any->Idle; the
   phase never goes Idle->Fighting, Idle->Ended, Betting->Ended or
   Fighting->Betting, under any interleaving of ledger completions with
   admin commands. *)
C3_PhaseEdges ==
  [][gamePhase' # gamePhase => AllowedEdge(gamePhase, gamePhase')]_vars

(* The fight-end flow of some round is under way: endFight is suspended at
   its ledger call or inside processPayouts *)
FightEnding == \E task \in BagToSet(tasks) : task.fn = "endFight"

(* C4: a damage event during Fighting that takes bossHP from above 0 to 0
   begins the fight-end flow in that same step, without waiting for the
   fight timer. *)
C4_DefeatBeginsFightEnd ==
  [][(gamePhase = FIGHTING /\ bossHP > 0 /\ bossHP' = 0)
       => (FightEnding' \/ gamePhase' = ENDED)]_vars

(* C5: once bossHP has reached 0 in a round, no further damage is accepted
   for that round: no new delta = -1 entry in chronological, and totalHits,
   userHits and lastHitter unchanged until a reset or the next round. *)
C5_NoDamageAfterDefeat ==
  [][(bossHP = 0 /\ rounds' = rounds /\ resets' = resets)
       => /\ totalHits' = totalHits
          /\ userHits' = userHits
          /\ lastHitter' = lastHitter
          /\ Cardinality(DamageEntries(chronological')) =
               Cardinality(DamageEntries(chronological))]_vars

(* C6: a chat event, from pump.fun or from GET /test, received while the
   phase is not Fighting changes no game state (bossHP, userHits, totalHits,
   chronological, lastHitter, phase) and causes no update broadcast. *)
C6_OutOfPhaseChatIgnored ==
  [][(gamePhase # FIGHTING /\ ChatStep(MaxChat))
       => /\ UNCHANGED <<bossHP, userHits, totalHits, chronological,
                         lastHitter, gamePhase>>
          /\ \A i \in DOMAIN broadcasts' : broadcasts'[i].event # "update"]_vars

(* The fight is over with hits on record, and the last input handled left
   nothing behind: no broadcast, no ledger call *)
C6_QuietAfterFight ==
  /\ gamePhase = ENDED
  /\ chronological # <<>>
  /\ broadcasts = <<>>
  /\ rpcCalls = <<>>

(* C7: chat events arriving while the fight-end flow is under way (the
   endFight call or the settlement still awaited) are discarded: bossHP,
   userHits, totalHits, chronological and lastHitter do not change. *)
C7_ChatDiscardedWhileFightEnds ==
  [][(FightEnding /\ ChatStep(MaxChat))
       => UNCHANGED <<bossHP, userHits, totalHits, chronological,
                      lastHitter>>]_vars

(* C8: inputs are applied one at a time; in particular a second
   startBetting arriving while the first awaits initializeBettingRound
   starts no second round and schedules no second betting timer: at most
   one initializeBettingRound call is awaited and at most one betting
   timer is pending. *)
C8_OneRoundStartAtATime ==
  /\ \A task \in Waiting("initializeBettingRound") :
       /\ CopiesIn(task, tasks) = 1
       /\ Waiting("initializeBettingRound") = {task}
  /\ Cardinality({ i \in DOMAIN timers : timers[i].kind = "betting" }) <= 1

(* C9: a reset requested after a round entered its fight-end flow is
   applied only after the settlement has run: while the flow is under way
   the round keeps its id and its bettingRoundPDA and escrowPDA. *)
C9_SettlementKeepsRound ==
  [][FightEnding
       => /\ currentRoundId' = currentRoundId
          /\ bettingRoundPDA' = bettingRoundPDA
          /\ escrowPDA' = escrowPDA]_vars

Cleared ==
  /\ gamePhase = IDLE
  /\ currentRoundId = 0
  /\ bossHP = INITIAL_HP
  /\ userHits = <<>>
  /\ chronological = <<>>
  /\ totalHits = 0
  /\ lastHitter = Null
  /\ bettingEndTime = Null
  /\ fightEndTime = Null
  /\ bettingRoundPDA = Null
  /\ escrowPDA = Null

(* C10: after an authorized reset, once every ledger call in flight has
   come back and with no startBetting since, the state is and stays
   cleared: Idle, round id 0, full health, no hits, no log, no end times,
   no addresses. *)
C10_ResetSticks ==
  (resets > 0 /\ currentRoundId = 0 /\ tasks = EmptyBag) => Cleared

(* C11: in every round fight_ended is broadcast before payouts_processed:
   when payouts_processed is emitted, fight_ended has been emitted, in an
   earlier step (the phase is then Ended) or earlier in the same step. *)
C11_FightEndedBeforePayouts ==
  [][\A i \in DOMAIN broadcasts' :
       broadcasts'[i].event = "payouts_processed"
         => \/ gamePhase = ENDED
            \/ \E j \in 1..(i - 1) : broadcasts'[j].event = "fight_ended"]_vars

(* startFightingPhase has set the phase and awaits loadBettingData: the
   phase_change announcing the fight is still to come *)
FightStarting ==
  \E task \in BagToSet(tasks) :
    /\ task.fn = "startFightingPhase"
    /\ task.pc \in { "loadBettingData.fetchBettingRound",
                     "loadBettingData.getProgramAccounts",
                     "loadBettingData.fetchBet" }

(* C12: in every round the phase_change announcing Fighting is broadcast
   before any update carrying damage, also for chat that arrives while the
   bet scan of the fight start is awaited: no damage update is emitted
   while the announcement is still to come. *)
C12_FightAnnouncedBeforeDamage ==
  [][(\E i \in DOMAIN broadcasts' :
        /\ broadcasts'[i].event = "update"
        /\ broadcasts'[i].latest.delta = -1)
       => ~FightStarting]_vars

(* C13: in every state with phase Betting, userHits and chronological are
   empty, totalHits is 0, lastHitter is unset and bossHP is the maximum. *)
C13_BettingStartsClean ==
  gamePhase = BETTING
    => /\ userHits = <<>>
       /\ chronological = <<>>
       /\ totalHits = 0
       /\ lastHitter = Null
       /\ bossHP = INITIAL_HP

(* This step sets a timer for another attempt of startFightingPhase *)
RetryScheduled ==
  /\ Len(timers') > Len(timers)
  /\ timers'[Len(timers')].kind = "retry"

(* C14: the startFightPhase call is retried if and only if it came back
   with BettingStillActive and fewer than 5 retries have been made; any
   other error causes no retry, and no attempt is a retry beyond the 5th. *)
C14_RetryPolicy ==
  [][/\ RetryScheduled <=>
          \E task \in AllTasks :
            /\ task.retryCount < 5
            /\ StartFightPhaseReturns(task, "BettingStillActive")
     /\ \A task \in AllTasks : task.retryCount <= 5]_vars

(* The fifth retry is pending *)
C14_FifthRetryPending ==
  \E i \in DOMAIN timers : timers[i].kind = "retry" /\ timers[i].retryCount = 5

(* C15: when startFightPhase has failed with BettingStillActive through
   all 5 retries, the phase is set to Idle, a phase_change to Idle with an
   explanatory message is broadcast, and no fight timer is scheduled. *)
C15_RetriesExhausted ==
  [][\A task \in AllTasks :
       (task.retryCount = 5 /\ StartFightPhaseReturns(task, "BettingStillActive"))
         => /\ gamePhase' = IDLE
            /\ \E i \in DOMAIN broadcasts' :
                 /\ broadcasts'[i].event = "phase_change"
                 /\ broadcasts'[i].gamePhase = IDLE
                 /\ broadcasts'[i].message # ""
            /\ \A i \in DOMAIN timers' : timers'[i].kind # "fight"]_vars

(* The round went back to Idle with the message of a failed fight start *)
C15_GaveUp ==
  /\ gamePhase = IDLE
  /\ currentRoundId # 0
  /\ timers = <<>>
  /\ broadcasts = <<startFailed>>

(* C16: when initializeBettingRound fails, the phase ends up Idle, no
   phase_change is broadcast and no betting timer is scheduled. *)
C16_InitRoundFailure ==
  [][\A task \in AllTasks :
       InitializeBettingRoundReturns(task, FALSE)
         => /\ gamePhase' = IDLE
            /\ \A i \in DOMAIN broadcasts' :
                 broadcasts'[i].event # "phase_change"
            /\ timers' = timers]_vars

(* A round was begun and is back in Idle with nothing pending: its
   initializeBettingRound has failed *)
C16_RoundNotOpened ==
  /\ gamePhase = IDLE
  /\ currentRoundId # 0
  /\ bettingEndTime = Null
  /\ tasks = EmptyBag
  /\ timers = <<>>
  /\ broadcasts = <<>>

(* The endFight call, or a call of the settlement whose error processPayouts
   rethrows, comes back with an error *)
FightEndFails ==
  \E task \in AllTasks :
    \/ EndFightReturns(task, FALSE)
    \/ PayFetchBettingRoundReturns(task, FALSE, <<>>, FALSE)
    \/ PayGetProgramAccountsReturns(task, FALSE)

(* C17: when the endFight call or the settlement after it fails, the phase
   is left Idle or still Fighting and an informational phase_change is
   broadcast. *)
C17_FightEndFailureAnnounced ==
  [][FightEndFails
       => /\ gamePhase' \in {IDLE, FIGHTING}
          /\ \E i \in DOMAIN broadcasts' :
               broadcasts'[i].event = "phase_change"]_vars

(* n is the integer part of num / den *)
IsFloor(n, num, den) == n * den <= num /\ num < (n + 1) * den

(* r is the payout of a winning bet in a round with loser total L, winner
   total W and fee percentage p *)
IsPayout(r, L, W, p) ==
  \E fee \in 0..L :
    /\ IsFloor(fee, L * p, 100)
    /\ IsFloor(r.prizeShare, (L - fee) * r.betAmount, W)
    /\ r.totalPayout = r.betAmount + r.prizeShare

(* C18: for every winning bet of a round with loser total L, winner total
   W > 0 and fee percentage p: fee = floor(L*p/100), prizePool = L - fee,
   prizeShare = floor(prizePool*amount/W), totalPayout = amount +
   prizeShare, in integer lamports. *)
C18_PayoutArithmetic ==
  \A task \in AllTasks :
    \A k \in DOMAIN task.payoutResults :
      /\ totalWinnerBets(task.acct) > 0
      /\ IsPayout(task.payoutResults[k], totalLoserBets(task.acct),
                  totalWinnerBets(task.acct), task.acct.feePercentage)

RECURSIVE SumShares(_)
SumShares(results) ==
  IF results = <<>> THEN 0
  ELSE results[1].prizeShare + SumShares(Tail(results))

RECURSIVE SumPayouts(_)
SumPayouts(results) ==
  IF results = <<>> THEN 0
  ELSE results[1].totalPayout + SumPayouts(Tail(results))

(* C19: the prizeShare values of a round's winners never add up to more
   than prizePool, and their totalPayout values plus the fee never add up
   to more than W + L. *)
C19_PayoutsWithinPot ==
  \A task \in AllTasks :
    LET L == totalLoserBets(task.acct)
        W == totalWinnerBets(task.acct)
        fee == (L * task.acct.feePercentage) \div 100
    IN /\ SumShares(task.payoutResults) <= L - fee
       /\ SumPayouts(task.payoutResults) + fee <= W + L

(* C20: when the round account shows no bet on the winning side, the
   settlement issues exactly one claimFees and nothing else: no claimPayout
   and no scan of the bet accounts, neither in the step that reads the
   account nor after claimFees has returned. *)
C20_NoWinnersFeesOnly ==
  [][/\ \A task \in AllTasks, bets \in BetScenarios, defeated \in BOOLEAN :
          (/\ PayFetchBettingRoundReturns(task, TRUE, bets, defeated)
           /\ totalWinnerBets(RoundAccount(bets, defeated)) = 0)
            => /\ Len(rpcCalls') = 1
               /\ rpcCalls'[1].op = "claimFees"
     /\ \A task \in Waiting("processPayouts.claimFees.noWinners") :
          ClaimFeesReturns(task) => rpcCalls' = <<>>]_vars

(* The settlement whose call has just failed goes on with the bets after
   the failed one: it awaits the next bet account, or, after the last one,
   has issued claimFees and awaits it; its list of payouts is unchanged. *)
SettlementGoesOn(task) ==
  IF Len(task.bets) > 1
  THEN /\ [task EXCEPT !.bets = Tail(@), !.sent = TRUE,
                       !.pc = "processPayouts.fetchBet"] \in BagToSet(tasks')
       /\ rpcCalls' = <<>>
  ELSE /\ [task EXCEPT !.bets = <<>>, !.sent = TRUE,
                       !.pc = "processPayouts.claimFees"] \in BagToSet(tasks')
       /\ Len(rpcCalls') = 1
       /\ rpcCalls'[1].op = "claimFees"

(* C21: when claimPayout or the fetch of a bet account fails for one
   bettor, the settlement goes on with the remaining bets and ends with
   exactly one claimFees; when that claimFees has returned,
   payouts_processed lists the payouts collected, which are those whose
   claimPayout succeeded. *)
C21_PayoutFailureSkipped ==
  [][\A task \in AllTasks :
       /\ (ClaimPayoutReturns(task, FALSE) \/ PayFetchBetReturns(task, FALSE))
            => SettlementGoesOn(task)
       /\ (task.pc = "processPayouts.claimFees" /\ ClaimFeesReturns(task))
            => \E i \in DOMAIN broadcasts' :
                 /\ broadcasts'[i].event = "payouts_processed"
                 /\ broadcasts'[i].payouts = task.payoutResults]_vars

(* The activations of endFight under way for a round *)
FightEndsOf(bag, round) ==
  { task \in BagToSet(bag) : task.fn = "endFight" /\ task.round = round }

(* C22: settlement runs at most once per round and only after the endFight
   call of that round has returned: every claimPayout and claimFees that
   is sent names the round account on which the settling activation made
   its endFight call, and no round has two activations of endFight under
   way. *)
C22_SettlesOwnRoundOnce ==
  [][/\ \A i \in DOMAIN rpcCalls' :
          (/\ rpcCalls'[i].op \in {"claimPayout", "claimFees"}
           /\ rpcCalls'[i].bettingRound # Null)
            => \E task \in AllTasks :
                 /\ task.fn = "endFight"
                 /\ rpcCalls'[i].bettingRound
                      = Some(getBettingRoundPDA(task.round))
     /\ \A task \in BagToSet(tasks') :
          (task.fn = "endFight" /\ task.round # 0)
            => /\ CopiesIn(task, tasks') = 1
               /\ FightEndsOf(tasks', task.round) = {task}]_vars

(* k occurs in text when the case of letters is ignored *)
SameLetter(a, b) == toUpperCaseChar(a) = toUpperCaseChar(b)
ContainsIgnoringCase(text, k) ==
  \E i \in 0..(Len(text) - Len(k)) :
    \A j \in 1..Len(k) : SameLetter(text[i + j], k[j])
hasHit(message) ==
  \E i \in DOMAIN TRIGGER_KEYWORDS :
    ContainsIgnoringCase(message, TRIGGER_KEYWORDS[i])
hasHeal(message) ==
  \E i \in DOMAIN HEAL_KEYWORDS :
    ContainsIgnoringCase(message, HEAL_KEYWORDS[i])

(* The state of the fight is as it was and nothing is broadcast *)
NoEffect ==
  /\ UNCHANGED << gamePhase, bossHP, userHits, chronological, lastHitter,
                  totalHits >>
  /\ broadcasts' = <<>>

(* One entry with the given delta is logged and broadcast *)
Logged(m, delta) ==
  /\ Len(chronological') = Len(chronological) + 1
  /\ chronological'[Len(chronological')].delta = delta
  /\ chronological'[Len(chronological')].message = m.message
  /\ Len(broadcasts') = 1
  /\ broadcasts'[1].event = "update"
  /\ broadcasts'[1].latest.delta = delta

(* C23: during a fight a message with a trigger keyword and no heal keyword
   (as substrings, whatever the case of the letters) does exactly 1 damage,
   a message with a heal keyword and no trigger keyword heals exactly 1,
   however many keywords or occurrences it holds, and any other message,
   one with both kinds included, changes nothing. *)
C23_KeywordEffect ==
  [][\A m \in FightMessages :
       PumpMessage(m, MaxChat)
         => IF hasHit(m.message) /\ ~hasHeal(m.message)
            THEN /\ Logged(m, -1)
                 /\ bossHP' = Max(0, bossHP - 1)
                 /\ totalHits' = totalHits + 1
            ELSE IF hasHeal(m.message) /\ ~hasHit(m.message)
            THEN /\ Logged(m, 1)
                 /\ bossHP' = Min(INITIAL_HP, bossHP + 1)
                 /\ totalHits' = totalHits
            ELSE NoEffect]_vars

(* A message with two trigger keywords has done one damage *)
C23_TwoKeywordsOneDamage ==
  /\ Len(chronological) = 1
  /\ chronological[1].message = <<"H", "I", "T", "#swords">>
  /\ chronological[1].delta = -1
  /\ bossHP = INITIAL_HP - 1
  /\ totalHits = 1

(* A damage message and then a heal message, applied to the state s *)
DamageThenHeal(s) ==
  handleChatMessage(handleChatMessage(s, "alice", <<"H", "I", "T">>, 1),
                    "bob", <<"H", "E", "A", "L">>, 1)

(* C24, as stated: during a fight a damage followed by a heal gives back
   the bossHP of the state they are applied to if and only if that bossHP
   lies strictly between 0 and INITIAL_HP. *)
C24_RoundTripInsideOnly ==
  gamePhase = FIGHTING
    => (DamageThenHeal(S).bossHP = bossHP
          <=> (0 < bossHP /\ bossHP < INITIAL_HP))

(* C24, amended: during a fight a damage followed by a heal gives back the
   bossHP of the state they are applied to if and only if that bossHP is
   above 0, INITIAL_HP included; at 0 the damage is clamped and the result
   is 1.  The scoreboard keeps both events: one more hit in totalHits and
   for the user, the damager as lastHitter, two more log entries. *)
C24_RoundTripAboveZero ==
  gamePhase = FIGHTING
    => LET after == DamageThenHeal(S)
       IN /\ after.bossHP = bossHP <=> bossHP > 0
          /\ bossHP = 0 => after.bossHP = 1
          /\ after.totalHits = totalHits + 1
          /\ hitsOf(after.userHits, "alice") = hitsOf(userHits, "alice") + 1
          /\ after.lastHitter = Some("alice")
          /\ Len(after.chronological) = Len(chronological) + 2

(* A damage and then a heal have been applied to the boss at full health,
   and it is at full health again *)
C24_FullHealthRestored ==
  /\ gamePhase = FIGHTING
  /\ Len(chronological) = 2
  /\ chronological[1].delta = -1
  /\ chronological[2].delta = 1
  /\ bossHP = INITIAL_HP
  /\ totalHits = 1

(* The payload carries the admin key and, as its wallet field, the wallet
   the deployment has configured *)
Credentials(data) ==
  /\ data # Null
  /\ data[1].adminKey = ADMIN_SECRET
  /\ data[1].walletAddress.type = "string"
  /\ data[1].walletAddress = adminWallet

(* the game and its calls *)
gameState ==
  << gamePhase, currentRoundId, bossHP, userHits, chronological, lastHitter,
     totalHits, bettingEndTime, fightEndTime, gameTimer, bettingRoundPDA,
     escrowPDA, onChainBets, totalDeathBets, totalSurvivalBets, tasks, timers,
     now, timePassed, rounds, resets >>

(* The command is refused: nothing changes, nothing is broadcast, no ledger
   call is made and the socket it came from is sent an admin:error, alone *)
Refused(socket) ==
  /\ UNCHANGED gameState
  /\ broadcasts' = <<>>
  /\ rpcCalls' = <<>>
  /\ Len(replies') = 1
  /\ replies'[1].to = socket
  /\ replies'[1].ev.event = "admin:error"

(* C25: an admin:reset or admin:start_betting whose payload lacks the admin
   key or the configured admin wallet (a missing wallet field and a
   deployment without ADMIN_WALLET included) is refused: the game state is
   unchanged, nothing is broadcast and admin:error goes to the sending
   socket only. *)
C25_AdminNeedsCredentials ==
  [][\A socket \in Sockets, data \in AdminData :
       ~Credentials(data)
         => /\ AdminReset(socket, data, MaxResets) => Refused(socket)
            /\ \A dt \in Elapsed :
                 AdminStartBetting(socket, data, dt, MaxRounds) => Refused(socket)]_vars

LiveClients(all) == { c \in DOMAIN all : all[c] \in Live }

(* C26: the chat ingestor has at most one live (connecting or connected)
   client at any time, whatever the order of reconnect timers and client
   events, and a connectToPumpFun called while the ingestor is connecting or
   connected changes nothing. *)
C26_OneLiveClient ==
  [][/\ Cardinality(LiveClients(clients')) <= 1
     /\ (Len(timers') < Len(timers) /\ (isConnecting \/ isConnected))
          => /\ UNCHANGED << clients, isConnecting, isConnected, reconnectAttempts >>
             /\ broadcasts' = <<>>]_vars

(* Two reconnects were pending, the first made the second client and the
   second one, arriving while that client connects, made none *)
C26_SecondCallIgnored ==
  /\ clients = << "closed", "connecting" >>
  /\ isConnecting
  /\ reconnectAttempts = 2
  /\ timers = <<>>

ReconnectsPending == { i \in DOMAIN timers : timers[i].kind = "reconnect" }

(* C27: at most one reconnect timer is pending at any time. *)
C27_OneReconnectPending == Cardinality(ReconnectsPending) <= 1

(* C28: reconnectAttempts is 0 after every successful connect and never
   exceeds 10; a disconnect after 10 failed reconnects emits the terminal
   maxReconnectAttemptsReached signal and schedules no reconnect. *)
C28_ReconnectLimit ==
  [][/\ reconnectAttempts' <= maxReconnectAttempts
     /\ \A c \in DOMAIN clients :
          /\ ClientConnected(c) => reconnectAttempts' = 0
          /\ (ClientDisconnected(c, MaxPending)
                /\ reconnectAttempts = maxReconnectAttempts)
               => /\ timers' = timers
                  /\ \E i \in DOMAIN broadcasts' :
                       broadcasts'[i].event = "maxReconnectAttemptsReached"]_vars

(* C29: a new overlay socket is sent the state, with the phase of that
   moment, as its first message, and from then on its view follows every
   phase transition: whenever the server leaves a phase, every connected
   overlay has been shown that phase. *)
C29_OverlaySeesEveryPhase ==
  [][/\ \A socket \in DOMAIN overlays' \ DOMAIN overlays :
          /\ Len(replies') = 1
          /\ replies'[1].to = socket
          /\ replies'[1].ev.event = "state"
          /\ replies'[1].ev.gamePhase = gamePhase
          /\ broadcasts' = <<>>
     /\ \A socket \in DOMAIN overlays :
          gamePhase' # gamePhase => overlays[socket] = gamePhase]_vars

(* C30: POST /api/place-bet returns a prepared transaction only for a bet
   asked for in the Betting phase whose bet account does not exist, and the
   transaction names the bettingRound and escrow addresses of the round its
   bet account belongs to, the round that was current when the phase check
   passed, whatever happened while the request awaited the ledger. *)
C30_BetTransactionOfItsRound ==
  [][\A i \in DOMAIN replies' :
       (replies'[i].ev.event = "response" /\ replies'[i].ev.status = 200)
         => LET tx == replies'[i].ev.transaction
            IN /\ tx.bettingRound = Some(getBettingRoundPDA(tx.betAccount[2]))
               /\ tx.escrow = Some(getEscrowPDA(tx.betAccount[2]))
               /\ \E task \in Waiting("placeBet.getLatestBlockhash") :
                    /\ task.req.id = replies'[i].to
                    /\ ~task.betExists]_vars

(* C31: within a round the timestamps of the entries of chronological are
   non-decreasing in the order of the entries, whatever the order and the
   timestamps of the chat messages that come in. *)
C31_ChronologicalInTimeOrder ==
  \A i \in 1..(Len(chronological) - 1) :
    chronological[i].timestamp <= chronological[i + 1].timestamp

PhaseTimers(pending) ==
  { i \in DOMAIN pending : pending[i].kind \in { "betting", "fight", "retry" } }

(* C32: a reset cancels the phase timers: when resetGame has run, no betting
   timer, fight timer or startFight retry set before it is still pending, so
   that none can fire into a later round. *)
C32_ResetCancelsTimers ==
  [][(\E i \in DOMAIN broadcasts' : broadcasts'[i].event = "game_reset")
       => PhaseTimers(timers') = {}]_vars

(* Chat texts that hold a heal keyword and no hit keyword *)
HealTexts == { MsgHeal, <<"h", "e", "a", "l", " ", "#heart">> }

(* C33: a heal event during Fighting appends exactly one entry with delta +1
   to chronological, sets bossHP to min(maxHP, bossHP + 1), and leaves
   userHits, totalHits and lastHitter as they were. *)
C33_HealOnlyHeals ==
  [][\A m \in FightMessages :
       (m.message \in HealTexts /\ gamePhase = FIGHTING
          /\ PumpMessage(m, MaxChat))
       => /\ chronological' =
               Append(chronological,
                      [ username |-> m.username, message |-> m.message,
                        timestamp |-> m.timestamp, delta |-> 1 ])
          /\ bossHP' = Min(INITIAL_HP, bossHP + 1)
          /\ UNCHANGED <<userHits, totalHits, lastHitter>>]_vars

(* a hit, then a heal that restores the point and credits nobody *)
C33_HealAfterHit ==
  /\ Len(chronological) >= 2
  /\ chronological[Len(chronological) - 1].delta = -1
  /\ chronological[Len(chronological)].delta = 1
  /\ chronological[Len(chronological)].message \in HealTexts
  /\ totalHits = 1
  /\ bossHP = INITIAL_HP

(* C34: the bossDefeated flag published in fight_ended, and carried in its
   results, is true exactly when bossHP is 0 in the state in which the phase
   becomes Ended, chat handled during the fight-end flow included. *)
C34_DefeatedFlagIsFinalHP ==
  [][\A i \in DOMAIN broadcasts' :
       broadcasts'[i].event = "fight_ended"
       => /\ broadcasts'[i].bossDefeated <=> (bossHP' = 0)
          /\ broadcasts'[i].results.bossDefeated <=> (bossHP' = 0)]_vars

(* loadBettingData has not yet read the totals of the round account *)
TotalsReadPending ==
  \E task \in BagToSet(tasks) : task.pc = "loadBettingData.fetchBettingRound"

(* C35: from the scan at fight start until the next reset the bet totals
   are those read from the ledger at fight start: no step taken in Fighting
   or Ended after the read, a bet notification included, changes
   totalDeathBets or totalSurvivalBets. *)
C35_TotalsFixedAfterScan ==
  [][(/\ gamePhase \in { FIGHTING, ENDED }
      /\ gamePhase' \in { FIGHTING, ENDED }
      /\ ~TotalsReadPending)
     => UNCHANGED <<totalDeathBets, totalSurvivalBets>>]_vars

(* C36: every fight ends.  With fair timers and ledger calls that all
   return, a fight can fail to end only from a state in which nothing is
   left to happen: so in phase Fighting the fight timer is pending or a
   ledger call of the server is in flight. *)
C36_FightCanEnd ==
  gamePhase = FIGHTING
  => \/ \E i \in DOMAIN timers : timers[i].kind = "fight"
     \/ BagToSet(tasks) # {}

(* C37: every betting phase ends.  With fair timers and a startFightPhase
   call that always returns, betting can fail to end only from a state in
   which nothing is left to happen: so in phase Betting the betting timer or
   a retry of startFightingPhase is pending, or a ledger call of the server
   is in flight. *)
C37_BettingCanEnd ==
  gamePhase = BETTING
  => \/ \E i \in DOMAIN timers : timers[i].kind \in { "betting", "retry" }
     \/ BagToSet(tasks) # {}

(* C38: the round identity matches the phase in every reachable state: in
   Idle, currentRoundId is 0 and bettingRoundPDA, escrowPDA, bettingEndTime
   and fightEndTime are unset; in Betting, Fighting and Ended,
   currentRoundId is not 0 and the two addresses are those derived from
   it. *)
C38_RoundIdentityMatchesPhase ==
  /\ gamePhase = IDLE
       => /\ currentRoundId = 0
          /\ bettingRoundPDA = Null
          /\ escrowPDA = Null
          /\ bettingEndTime = Null
          /\ fightEndTime = Null
  /\ gamePhase \in { BETTING, FIGHTING, ENDED }
       => /\ currentRoundId # 0
          /\ bettingRoundPDA = Some(getBettingRoundPDA(currentRoundId))
          /\ escrowPDA = Some(getEscrowPDA(currentRoundId))

(* C39: at most one phase timer (betting timer, fight timer or startFight
   retry) is pending at any time, and every pending phase timer is the one
   whose handle gameTimer holds, so that reset and fight end can cancel
   it. *)
C39_OneTrackedPhaseTimer ==
  /\ Cardinality(PhaseTimers(timers)) <= 1
  /\ \A i \in PhaseTimers(timers) : gameTimer # Null /\ timers[i].held

(* C40: the fight-end flow is entered at most once for each round: no
   endFight call is issued for a round while an activation of endFight for
   that round is under way, and fight_ended is not broadcast for a round
   that is already in phase Ended. *)
C40_FightEndsOncePerRound ==
  [][currentRoundId # 0 =>
       /\ (\E i \in DOMAIN rpcCalls' : rpcCalls'[i].op = "endFight")
            => FightEndsOf(tasks, currentRoundId) = {}
       /\ (\E i \in DOMAIN broadcasts' : broadcasts'[i].event = "fight_ended")
            => ~(gamePhase = ENDED /\ currentRoundId' = currentRoundId)]_vars

====
